---- MODULE Spec2Model ----
(***************************************************************************)
(* A model of the bounded buffer of mandatory/src/bounded_buffer.c: a      *)
(* circular array of (a, b) tuples shared by producer and consumer         *)
(* threads, synchronised with three counting semaphores (mutex, data,      *)
(* empty), and of the counting semaphore the buffer is built on.           *)
(*                                                                         *)
(* Every statement of buffer_put and buffer_get that touches shared state  *)
(* is one action, so every interleaving of the threads at statement        *)
(* granularity is a behaviour of the model.  The two-thread rendezvous of  *)
(* rendezvous.c and the shared-counter test cases of mutex.c are modelled  *)
(* the same way, each with its own variables and specification.            *)
(***************************************************************************)
EXTENDS Integers, Sequences, FiniteSets, TLC

(***************************************************************************)
(* Bounds of the model.                                                    *)
(***************************************************************************)
\* Largest capacity passed to buffer_init.
MaxSize == 2
\* Most producer threads, and most consumer threads.
MaxThreads == 2
\* Most calls one thread issues.
MaxOps == 3
\* Most calls all producers (or all consumers) issue together.
MaxItems == 4
\* Threads that call psem_wait and psem_signal on the lone semaphore.
MaxSemThreads == 3
\* Largest initial count of the lone semaphore.
MaxCount == 2
\* Most psem_signal calls on the lone semaphore.
MaxSignals == 3
\* Buffers that exist side by side.
MaxBuffers == 2
\* Threads that use those buffers, one call each.
MaxBufThreads == 3
\* Most threads run_test creates in a run of the model.
MaxCntThreads == 3
\* Most iterations of an incrementing thread in a run of the model.
MaxIterations == 2

(***************************************************************************)
(* Constants of the program.                                               *)
(***************************************************************************)
\* rendezvous.c: #define LOOPS 10
LOOPS == 10
\* mutex.c
INC_THREADS == 5
INCREMENT == 2
INC_ITERATIONS == 20000
DEC_THREADS == 4
DECREMENT == 2

Producers == 1..MaxThreads
Consumers == (MaxThreads + 1)..(2 * MaxThreads)
Threads == Producers \cup Consumers
SemThreads == 1..MaxSemThreads
Buffers == 1..MaxBuffers
BufThreads == 1..MaxBufThreads
CntThreads == 1..MaxCntThreads

\* tuple_t: a pair of ints.  The j-th call of producer t passes (t, j).
Items == Producers \X (1..MaxOps)
\* The content of a slot that malloc() returned and nothing has written yet.
Uninit == <<-1, -1>>
\* The pointer to no array and to no semaphore: a value no count takes.
NULL == -1

VARIABLES
  \* buffer_t
  size,        \* buffer->size
  in,          \* buffer->in: where to produce the next data
  out,         \* buffer->out: where to consume the next data
  array,       \* buffer->array: slot index 0..size-1 -> tuple, or NULL
  mutex,       \* count of the semaphore buffer->mutex, or NULL
  data,        \* count of the semaphore buffer->data, or NULL
  empty,       \* count of the semaphore buffer->empty, or NULL
  \* the threads that use the buffer
  pc,          \* thread -> the statement it executes next
  tup,         \* thread -> (a, b): the arguments of buffer_put, *tuple of buffer_get
  todo,        \* thread -> calls it has still to issue
  nprod,       \* producer threads that run
  ncons,       \* consumer threads that run
  kput,        \* buffer_put calls of each producer
  kget,        \* buffer_get calls of each consumer
  \* history of the buffer
  putLog,      \* the tuples passed to buffer_put, in call order
  getLog,      \* the tuples buffer_get returned, in return order
  writeLog,    \* the tuples written to the array, in the order of the writes
  slot,        \* slot index -> "EMPTY" | "FILLED": written and not yet read
  mark,        \* thread -> "held": its call was issued on a full (put) or
               \* empty (get) buffer and no call of the other kind has
               \* completed since; "released": one has; "none" otherwise;
               \* "off" throughout a behaviour that keeps no marks
  \* a lone semaphore and the threads that call it
  scount,      \* its count
  sinit,       \* the count psem_init gave it
  spc,         \* thread -> "idle" | "wait" (inside psem_wait)
  swaited,     \* psem_wait calls that have returned
  ssignalled,  \* psem_signal calls that have occurred
  spend,       \* the threads that were blocked when the last signal that
               \* found blocked threads occurred
  swoken,      \* the threads a signal has woken and permitted to proceed,
               \* and that have not yet returned from psem_wait
  \* several buffers side by side and the threads that use them
  buffers,     \* buffer -> buffer_t: [size, in, out, array, mutex, data, empty]
  bpc,         \* thread -> the statement it executes next
  brole,       \* thread -> "put" | "get": the function it calls
  btup,        \* thread -> (a, b): the arguments of buffer_put, *tuple of buffer_get
  \* rendezvous.c
  semA,        \* count of the semaphore semA
  semB,        \* count of the semaphore semB
  pcA,         \* threadA: the statement it executes next
  iA,          \* threadA: its loop counter i
  pcB,         \* threadB: the statement it executes next
  iB,          \* threadB: its loop counter i
  pcMain,      \* main: the statement it executes next
  \* mutex.c
  test,        \* the test case run_test runs and the threads and iterations
               \* it runs with: [name, incThreads, decThreads, incIter, decIter]
  counter,     \* the shared variable counter
  lock,        \* the shared variable of the spinlock
  pmutex,      \* the pthread mutex: 0 when unlocked, else the thread that holds it
  cpc,         \* thread -> the statement it executes next
  ci,          \* thread -> its loop counter i
  creg,        \* thread -> the value of counter it loaded
  nthreads,    \* run_test: the threads created so far
  joined,      \* run_test: the threads joined so far
  cmain,       \* run_test: the statement it executes next
  tcounter     \* test->counter

bufVars == <<in, out, array, mutex, data, empty>>
cfgVars == <<size, nprod, ncons, kput, kget>>
histVars == <<putLog, getLog, writeLog, slot, mark>>
semVars == <<scount, sinit, spc, swaited, ssignalled, spend, swoken>>
\* All that belongs to the buffer and its threads.
allBufVars == <<bufVars, cfgVars, pc, tup, todo, histVars>>
\* What a statement of buffer_put or buffer_get cannot touch.
multiVars == <<buffers, bpc, brole, btup>>
rdvVars == <<semA, semB, pcA, iA, pcB, iB, pcMain>>
cntVars == <<test, counter, lock, pmutex, cpc, ci, creg, nthreads, joined,
             cmain, tcounter>>
nonBufVars == <<semVars, multiVars, rdvVars, cntVars>>
\* What a call on the lone semaphore cannot touch.
nonSemVars == <<allBufVars, multiVars, rdvVars, cntVars>>
\* What a call on one of the buffers that exist side by side cannot touch.
nonMultiVars == <<allBufVars, semVars, rdvVars, cntVars>>
\* What a statement of rendezvous.c cannot touch.
nonRdvVars == <<allBufVars, semVars, multiVars, cntVars>>
\* What a statement of mutex.c cannot touch.
nonCntVars == <<allBufVars, semVars, multiVars, rdvVars>>
vars == <<allBufVars, semVars, multiVars, rdvVars, cntVars>>

(***************************************************************************)
(* The counting semaphore (psem_init, psem_wait, psem_signal).  psem_wait:  *)
(* if the count is > 0, decrement it and return, otherwise block until a   *)
(* signal, then decrement and return; the test and the decrement are one   *)
(* atomic step.  psem_signal increments the count and, if threads are      *)
(* blocked in psem_wait, wakes exactly one of them and permits it to       *)
(* proceed.  The operators below act on the count; which thread a signal   *)
(* wakes is part of the actions that call them.                            *)
(***************************************************************************)
PsemInit(c) == c

\* psem_wait that also returns on a count of 0.
PsemCanWaitZero(c) == c >= 0

PsemCanWait(c) == c > 0

PsemWait(c) == c - 1

\* A binary semaphore: a signal on a positive count is lost.
PsemSignalBinary(c) == IF c = 0 THEN 1 ELSE c

PsemSignal(c) == c + 1

(***************************************************************************)
(* buffer_init                                                             *)
(***************************************************************************)
\* buffer->mutex = psem_init(2)
MutexInitTwo == PsemInit(2)

MutexInit == PsemInit(1)

\* buffer->data = psem_init(1)
DataInitOne == PsemInit(1)

DataInit == PsemInit(0)

\* buffer->empty = psem_init(size + 1)
EmptyInitOffByOne(n) == PsemInit(n + 1)

\* buffer->empty = psem_init(size > 0 ? size : 1)
EmptyInitAtLeastOne(n) == PsemInit(IF n > 0 THEN n ELSE 1)

EmptyInit(n) == PsemInit(n)

\* buffer->in is not advanced.
NextInStuck(i, n) == i

\* buffer->in + 1: the index does not wrap.
NextInNoWrap(i, n) == i + 1

\* (buffer->in + 1) % buffer->size
NextIn(i, n) == (i + 1) % n

\* buffer->out is not advanced.
NextOutStuck(i, n) == i

\* (buffer->out + 1) % buffer->size
NextOut(i, n) == (i + 1) % n

BufferInit(n) ==
  /\ size = n
  /\ in = 0
  /\ out = 0
  /\ array = [i \in 0..(n - 1) |-> Uninit]
  /\ mutex = MutexInit
  /\ data = DataInit
  /\ empty = EmptyInit(n)

\* The configurations: how many threads run and how many calls each issues.
Configs ==
  {c \in [np : 1..MaxThreads, nc : 1..MaxThreads, k : 1..MaxOps, m : 1..MaxOps] :
     c.np * c.k <= MaxItems /\ c.nc * c.m <= MaxItems}

ThreadsInit(c) ==
  /\ nprod = c.np
  /\ ncons = c.nc
  /\ kput = c.k
  /\ kget = c.m
  /\ todo = [t \in Threads |->
               IF t \in Producers
                 THEN (IF t <= c.np THEN c.k ELSE 0)
                 ELSE (IF t - MaxThreads <= c.nc THEN c.m ELSE 0)]
  /\ pc = [t \in Threads |-> "idle"]
  /\ tup = [t \in Threads |-> Uninit]

\* Nothing was put, got or written; every thread's mark is m.
HistInit(m) ==
  /\ putLog = <<>>
  /\ getLog = <<>>
  /\ writeLog = <<>>
  /\ slot = [i \in 0..(size - 1) |-> "EMPTY"]
  /\ mark = [t \in Threads |-> m]

\* No lone semaphore: the harness of the semaphore does not run.
SemIdle ==
  /\ scount = 0
  /\ sinit = 0
  /\ spc = [u \in SemThreads |-> "idle"]
  /\ swaited = 0
  /\ ssignalled = 0
  /\ spend = {}
  /\ swoken = {}

\* No further buffers.
MultiIdle ==
  /\ buffers = <<>>
  /\ bpc = <<>>
  /\ brole = <<>>
  /\ btup = <<>>

\* rendezvous.c does not run.
RdvIdle ==
  /\ semA = 0
  /\ semB = 0
  /\ pcA = "none"
  /\ iA = 0
  /\ pcB = "none"
  /\ iB = 0
  /\ pcMain = "none"

\* mutex.c does not run.
CntIdle ==
  /\ test = [name |-> "none", incThreads |-> 0, decThreads |-> 0,
             incIter |-> 0, decIter |-> 0]
  /\ counter = 0
  /\ lock = FALSE
  /\ pmutex = 0
  /\ cpc = <<>>
  /\ ci = <<>>
  /\ creg = <<>>
  /\ nthreads = 0
  /\ joined = 0
  /\ cmain = "none"
  /\ tcounter = 0

Init ==
  /\ \E n \in 1..MaxSize : BufferInit(n)
  /\ \E c \in Configs : ThreadsInit(c)
  /\ HistInit("off")
  /\ SemIdle
  /\ MultiIdle
  /\ RdvIdle
  /\ CntIdle

\* As Init, in a behaviour that keeps the marks.
MarkInit ==
  /\ \E n \in 1..MaxSize : BufferInit(n)
  /\ \E c \in Configs : ThreadsInit(c)
  /\ HistInit("none")
  /\ SemIdle
  /\ MultiIdle
  /\ RdvIdle
  /\ CntIdle

\* Items written to the array and not yet read.
Unread == Cardinality({i \in DOMAIN slot : slot[i] = "FILLED"})

\* buffer_put calls that have returned.
PutsDone == Len(putLog) - Cardinality({t \in Producers : pc[t] # "idle"})

\* buffer_get calls that have returned.
GetsDone == Len(getLog)

\* Thread t issues a call, on a full (put) or empty (get) buffer if atLimit.
MarkCall(t, atLimit) ==
  [mark EXCEPT ![t] = IF @ = "off" THEN "off"
                      ELSE IF atLimit THEN "held" ELSE "none"]

\* A call has completed: the calls of the other kind (those of the threads
\* T) that were held since they were issued are held no longer.
Release(T) ==
  [t \in Threads |-> IF t \in T /\ mark[t] = "held" THEN "released" ELSE mark[t]]

(***************************************************************************)
(* buffer_put(buffer, a, b)                                                *)
(*                                                                         *)
(* A psem_wait of the buffer returns to any thread that is inside it while *)
(* the count is positive: whichever thread a psem_signal wakes, its return *)
(* is among these steps.                                                   *)
(***************************************************************************)
\* A producer calls buffer_put(buffer, t, j), j the number of the call.
PutCall(t) ==
  /\ t \in Producers
  /\ pc[t] = "idle"
  /\ todo[t] > 0
  /\ LET item == <<t, kput - todo[t] + 1>> IN
       /\ tup' = [tup EXCEPT ![t] = item]
       /\ putLog' = Append(putLog, item)
  /\ pc' = [pc EXCEPT ![t] = "wait_empty"]
  /\ mark' = MarkCall(t, Unread = size)
  /\ UNCHANGED <<bufVars, cfgVars, todo, getLog, writeLog, slot, nonBufVars>>

\* buffer_put without psem_wait(buffer->empty).
PutWaitEmptyMissing(t) ==
  /\ t \in Producers
  /\ pc[t] = "wait_empty"
  /\ pc' = [pc EXCEPT ![t] = "wait_mutex"]
  /\ UNCHANGED <<bufVars, cfgVars, tup, todo, histVars, nonBufVars>>

\* psem_wait(buffer->empty)
PutWaitEmpty(t) ==
  /\ t \in Producers
  /\ pc[t] = "wait_empty"
  /\ PsemCanWait(empty)
  /\ empty' = PsemWait(empty)
  /\ pc' = [pc EXCEPT ![t] = "wait_mutex"]
  /\ UNCHANGED <<in, out, array, mutex, data, cfgVars, tup, todo, histVars,
                 nonBufVars>>

\* buffer_put without psem_wait(buffer->mutex).
PutWaitMutexMissing(t) ==
  /\ t \in Producers
  /\ pc[t] = "wait_mutex"
  /\ pc' = [pc EXCEPT ![t] = "write"]
  /\ UNCHANGED <<bufVars, cfgVars, tup, todo, histVars, nonBufVars>>

\* psem_wait(buffer->mutex)
PutWaitMutex(t) ==
  /\ t \in Producers
  /\ pc[t] = "wait_mutex"
  /\ PsemCanWait(mutex)
  /\ mutex' = PsemWait(mutex)
  /\ pc' = [pc EXCEPT ![t] = "write"]
  /\ UNCHANGED <<in, out, array, data, empty, cfgVars, tup, todo, histVars,
                 nonBufVars>>

\* buffer->array[buffer->in].a = a; buffer->array[buffer->in].b = b;
PutWrite(t) ==
  /\ t \in Producers
  /\ pc[t] = "write"
  /\ array' = [array EXCEPT ![in] = tup[t]]
  /\ slot' = [slot EXCEPT ![in] = "FILLED"]
  /\ writeLog' = Append(writeLog, tup[t])
  /\ pc' = [pc EXCEPT ![t] = "advance"]
  /\ UNCHANGED <<in, out, mutex, data, empty, cfgVars, tup, todo, putLog,
                 getLog, mark, nonBufVars>>

\* buffer->in = (buffer->in + 1) % buffer->size;
PutAdvance(t) ==
  /\ t \in Producers
  /\ pc[t] = "advance"
  /\ in' = NextIn(in, size)
  /\ pc' = [pc EXCEPT ![t] = "signal_mutex"]
  /\ UNCHANGED <<out, array, mutex, data, empty, cfgVars, tup, todo, histVars,
                 nonBufVars>>

\* buffer_put without psem_signal(buffer->mutex).
PutSignalMutexMissing(t) ==
  /\ t \in Producers
  /\ pc[t] = "signal_mutex"
  /\ pc' = [pc EXCEPT ![t] = "signal_data"]
  /\ UNCHANGED <<bufVars, cfgVars, tup, todo, histVars, nonBufVars>>

\* psem_signal(buffer->mutex)
PutSignalMutex(t) ==
  /\ t \in Producers
  /\ pc[t] = "signal_mutex"
  /\ mutex' = PsemSignal(mutex)
  /\ pc' = [pc EXCEPT ![t] = "signal_data"]
  /\ UNCHANGED <<in, out, array, data, empty, cfgVars, tup, todo, histVars,
                 nonBufVars>>

\* buffer_put whose last statement signals buffer->data twice.
PutSignalDataTwice(t) ==
  /\ t \in Producers
  /\ pc[t] = "signal_data"
  /\ data' = PsemSignal(PsemSignal(data))
  /\ pc' = [pc EXCEPT ![t] = "idle"]
  /\ todo' = [todo EXCEPT ![t] = @ - 1]
  /\ mark' = Release(Consumers)
  /\ UNCHANGED <<in, out, array, mutex, empty, cfgVars, tup, putLog, getLog,
                 writeLog, slot, nonBufVars>>

\* buffer_put that returns without psem_signal(buffer->data).
PutSignalDataMissing(t) ==
  /\ t \in Producers
  /\ pc[t] = "signal_data"
  /\ pc' = [pc EXCEPT ![t] = "idle"]
  /\ todo' = [todo EXCEPT ![t] = @ - 1]
  /\ mark' = Release(Consumers)
  /\ UNCHANGED <<bufVars, cfgVars, tup, putLog, getLog, writeLog, slot, nonBufVars>>

\* psem_signal(buffer->data), the last statement: buffer_put returns.
PutSignalData(t) ==
  /\ t \in Producers
  /\ pc[t] = "signal_data"
  /\ data' = PsemSignal(data)
  /\ pc' = [pc EXCEPT ![t] = "idle"]
  /\ todo' = [todo EXCEPT ![t] = @ - 1]
  /\ mark' = Release(Consumers)
  /\ UNCHANGED <<in, out, array, mutex, empty, cfgVars, tup, putLog, getLog,
                 writeLog, slot, nonBufVars>>

(***************************************************************************)
(* buffer_get(buffer, tuple)                                               *)
(***************************************************************************)
\* A consumer calls buffer_get(buffer, &tuple).
GetCall(t) ==
  /\ t \in Consumers
  /\ pc[t] = "idle"
  /\ todo[t] > 0
  /\ pc' = [pc EXCEPT ![t] = "wait_data"]
  /\ mark' = MarkCall(t, Unread = 0)
  /\ UNCHANGED <<bufVars, cfgVars, tup, todo, putLog, getLog, writeLog, slot, nonBufVars>>

\* buffer_get without psem_wait(buffer->data).
GetWaitDataMissing(t) ==
  /\ t \in Consumers
  /\ pc[t] = "wait_data"
  /\ pc' = [pc EXCEPT ![t] = "wait_mutex"]
  /\ UNCHANGED <<bufVars, cfgVars, tup, todo, histVars, nonBufVars>>

\* psem_wait(buffer->data)
GetWaitData(t) ==
  /\ t \in Consumers
  /\ pc[t] = "wait_data"
  /\ PsemCanWait(data)
  /\ data' = PsemWait(data)
  /\ pc' = [pc EXCEPT ![t] = "wait_mutex"]
  /\ UNCHANGED <<in, out, array, mutex, empty, cfgVars, tup, todo, histVars,
                 nonBufVars>>

\* buffer_get without psem_wait(buffer->mutex).
GetWaitMutexMissing(t) ==
  /\ t \in Consumers
  /\ pc[t] = "wait_mutex"
  /\ pc' = [pc EXCEPT ![t] = "read"]
  /\ UNCHANGED <<bufVars, cfgVars, tup, todo, histVars, nonBufVars>>

\* psem_wait(buffer->mutex)
GetWaitMutex(t) ==
  /\ t \in Consumers
  /\ pc[t] = "wait_mutex"
  /\ PsemCanWait(mutex)
  /\ mutex' = PsemWait(mutex)
  /\ pc' = [pc EXCEPT ![t] = "read"]
  /\ UNCHANGED <<in, out, array, data, empty, cfgVars, tup, todo, histVars,
                 nonBufVars>>

\* tuple->a = buffer->array[buffer->out].a; tuple->b = buffer->array[buffer->out].b;
\* A slot nothing has written holds whatever malloc() left there: any tuple.
GetRead(t) ==
  /\ t \in Consumers
  /\ pc[t] = "read"
  /\ IF array[out] = Uninit
       THEN \E v \in Items \cup {Uninit} : tup' = [tup EXCEPT ![t] = v]
       ELSE tup' = [tup EXCEPT ![t] = array[out]]
  /\ slot' = [slot EXCEPT ![out] = "EMPTY"]
  /\ pc' = [pc EXCEPT ![t] = "advance"]
  /\ UNCHANGED <<bufVars, cfgVars, todo, putLog, getLog, writeLog, mark, nonBufVars>>

\* buffer->out = (buffer->out + 1) % buffer->size;
GetAdvance(t) ==
  /\ t \in Consumers
  /\ pc[t] = "advance"
  /\ out' = NextOut(out, size)
  /\ pc' = [pc EXCEPT ![t] = "signal_mutex"]
  /\ UNCHANGED <<in, array, mutex, data, empty, cfgVars, tup, todo, histVars,
                 nonBufVars>>

\* psem_signal(buffer->mutex)
GetSignalMutex(t) ==
  /\ t \in Consumers
  /\ pc[t] = "signal_mutex"
  /\ mutex' = PsemSignal(mutex)
  /\ pc' = [pc EXCEPT ![t] = "signal_empty"]
  /\ UNCHANGED <<in, out, array, data, empty, cfgVars, tup, todo, histVars,
                 nonBufVars>>

\* buffer_get that returns without psem_signal(buffer->empty).
GetSignalEmptyMissing(t) ==
  /\ t \in Consumers
  /\ pc[t] = "signal_empty"
  /\ pc' = [pc EXCEPT ![t] = "idle"]
  /\ todo' = [todo EXCEPT ![t] = @ - 1]
  /\ getLog' = Append(getLog, tup[t])
  /\ mark' = Release(Producers)
  /\ UNCHANGED <<bufVars, cfgVars, tup, putLog, writeLog, slot, nonBufVars>>

\* psem_signal(buffer->empty), the last statement: buffer_get returns *tuple.
GetSignalEmpty(t) ==
  /\ t \in Consumers
  /\ pc[t] = "signal_empty"
  /\ empty' = PsemSignal(empty)
  /\ pc' = [pc EXCEPT ![t] = "idle"]
  /\ todo' = [todo EXCEPT ![t] = @ - 1]
  /\ getLog' = Append(getLog, tup[t])
  /\ mark' = Release(Producers)
  /\ UNCHANGED <<in, out, array, mutex, data, cfgVars, tup, putLog, writeLog,
                 slot, nonBufVars>>

\* One statement of thread t.
Step(t) ==
  \/ PutCall(t)
  \/ PutWaitEmpty(t)
  \/ PutWaitMutex(t)
  \/ PutWrite(t)
  \/ PutAdvance(t)
  \/ PutSignalMutex(t)
  \/ PutSignalData(t)
  \/ GetCall(t)
  \/ GetWaitData(t)
  \/ GetWaitMutex(t)
  \/ GetRead(t)
  \/ GetAdvance(t)
  \/ GetSignalMutex(t)
  \/ GetSignalEmpty(t)

\* Every thread has returned from all its calls.
AllDone == \A t \in Threads : todo[t] = 0

\* exit(EXIT_FAILURE) in buffer_init: no thread is created, nothing is called.
ProcessExited ==
  /\ nprod = 0
  /\ ncons = 0
  /\ kput = 0
  /\ kget = 0
  /\ todo = [t \in Threads |-> 0]
  /\ pc = [t \in Threads |-> "idle"]
  /\ tup = [t \in Threads |-> Uninit]

\* The buffer has its array and its semaphores: buffer_init has returned
\* and buffer_destroy has not been called.
Alive == mutex # NULL

\* buffer_destroy(buffer): free the array and destroy the three semaphores;
\* the four pointers are set to NULL.  Its caller has to see to it that no
\* buffer_put or buffer_get is in progress or will follow: it is called
\* once every thread has returned from all its calls.
BufferDestroy ==
  /\ ~ProcessExited
  /\ Alive
  /\ AllDone
  /\ array' = NULL
  /\ mutex' = NULL
  /\ data' = NULL
  /\ empty' = NULL
  /\ UNCHANGED <<in, out, cfgVars, pc, tup, todo, histVars, nonBufVars>>

Next ==
  \/ \E t \in Threads : Step(t)
  \/ BufferDestroy

Spec == Init /\ [][Next]_vars

MarkSpec == MarkInit /\ [][Next]_vars

\* As many buffer_put calls as buffer_get calls: P * k = C * m.
Balanced == nprod * kput = ncons * kget

\* Every thread that runs gets the processor again and again.
FairInit == Init /\ Balanced

FairSpec == FairInit /\ [][Next]_vars /\ \A t \in Threads : WF_vars(Step(t))

\* buffer_init(buffer, 0).  malloc(0) returns a pointer to no slot, and the
\* threads run, or it returns NULL, and buffer_init ends the process.
ZeroInit ==
  /\ BufferInit(0)
  /\ \/ \E c \in Configs : ThreadsInit(c)
     \/ ProcessExited
  /\ HistInit("off")
  /\ SemIdle
  /\ MultiIdle
  /\ RdvIdle
  /\ CntIdle

\* buffer_init with any size from 0.
AnySizeInit == Init \/ ZeroInit

AnySizeSpec == AnySizeInit /\ [][Next]_vars

\* One producer and one consumer, as in the fill-then-block scenario.
FillInit == Init /\ nprod = 1 /\ ncons = 1

FillSpec == FillInit /\ [][Next]_vars /\ \A t \in Threads : WF_vars(Step(t))

(***************************************************************************)
(* The semaphore on its own: threads that call psem_wait and psem_signal   *)
(* on one semaphore in any order.                                          *)
(***************************************************************************)
\* No buffer: the threads of the buffer do not run.
BufIdle ==
  /\ size = 0
  /\ in = 0
  /\ out = 0
  /\ array = <<>>
  /\ mutex = 0
  /\ data = 0
  /\ empty = 0
  /\ nprod = 0
  /\ ncons = 0
  /\ kput = 0
  /\ kget = 0
  /\ todo = [t \in Threads |-> 0]
  /\ pc = [t \in Threads |-> "idle"]
  /\ tup = [t \in Threads |-> Uninit]
  /\ putLog = <<>>
  /\ getLog = <<>>
  /\ writeLog = <<>>
  /\ slot = <<>>
  /\ mark = [t \in Threads |-> "none"]

\* semaphore = psem_init(c)
SemInit ==
  /\ \E c \in 0..MaxCount :
       /\ sinit = c
       /\ scount = PsemInit(c)
  /\ spc = [u \in SemThreads |-> "idle"]
  /\ swaited = 0
  /\ ssignalled = 0
  /\ spend = {}
  /\ swoken = {}
  /\ BufIdle
  /\ MultiIdle
  /\ RdvIdle
  /\ CntIdle

\* The threads inside psem_wait.
Pending == {u \in SemThreads : spc[u] = "wait"}

\* The units of the count no signal has given to a thread it woke.
Free == scount - Cardinality(swoken)

\* The threads blocked in psem_wait: inside it, not woken, and no unit of
\* the count is free.
Blocked == IF PsemCanWait(Free) THEN {} ELSE Pending \ swoken

\* Thread u calls psem_wait(semaphore).
SemCallWait(u) ==
  /\ spc[u] = "idle"
  /\ spc' = [spc EXCEPT ![u] = "wait"]
  /\ UNCHANGED <<scount, sinit, swaited, ssignalled, spend, swoken>>
  /\ UNCHANGED nonSemVars

\* psem_wait(semaphore) returns to thread u: it takes one unit, the one a
\* signal woke it for or a free one.
SemWaitReturn(u) ==
  /\ spc[u] = "wait"
  /\ u \in swoken \/ PsemCanWait(Free)
  /\ scount' = PsemWait(scount)
  /\ swoken' = swoken \ {u}
  /\ spc' = [spc EXCEPT ![u] = "idle"]
  /\ swaited' = swaited + 1
  /\ UNCHANGED <<sinit, ssignalled, spend>>
  /\ UNCHANGED nonSemVars

\* A psem_signal that increments the count and wakes no thread.
SemSignalNoWake(u) ==
  /\ spc[u] = "idle"
  /\ ssignalled < MaxSignals
  /\ scount' = PsemSignal(scount)
  /\ ssignalled' = ssignalled + 1
  /\ spend' = IF Blocked # {} THEN Blocked ELSE spend
  /\ UNCHANGED <<sinit, spc, swaited, swoken>>
  /\ UNCHANGED nonSemVars

\* Thread u calls psem_signal(semaphore): the count is incremented and, if
\* threads are blocked in psem_wait, exactly one of them is woken and
\* permitted to proceed.
SemSignal(u) ==
  /\ spc[u] = "idle"
  /\ ssignalled < MaxSignals
  /\ scount' = PsemSignal(scount)
  /\ ssignalled' = ssignalled + 1
  /\ IF Blocked # {}
       THEN /\ spend' = Blocked
            /\ \E w \in Blocked : swoken' = swoken \cup {w}
       ELSE UNCHANGED <<spend, swoken>>
  /\ UNCHANGED <<sinit, spc, swaited>>
  /\ UNCHANGED nonSemVars

SemNext ==
  \E u \in SemThreads :
    \/ SemCallWait(u)
    \/ SemWaitReturn(u)
    \/ SemSignal(u)

SemSpec == SemInit /\ [][SemNext]_vars

\* A thread inside psem_wait that can return does return.
FairSemSpec ==
  SemInit /\ [][SemNext]_vars /\ \A u \in SemThreads : WF_vars(SemWaitReturn(u))

(***************************************************************************)
(* Several buffers side by side.  Each is initialised by its own call of   *)
(* buffer_init, and buffer_put and buffer_get work on the buffer_t they    *)
(* are passed: its array, its in and out, its three semaphores.            *)
(***************************************************************************)
\* The buffer thread t passes to buffer_put or buffer_get.
BufferOf(t) == ((t - 1) % MaxBuffers) + 1

\* One semaphore, that of the first buffer, locks every buffer.
MutexOfShared(b) == 1

\* The buffer whose mutex field a call on buffer b waits on and signals:
\* buffer->mutex, its own.
MutexOf(b) == b

\* The buffer_t that buffer_init(buffer, n) leaves.
BufferT(n) ==
  [size |-> n, in |-> 0, out |-> 0,
   array |-> [i \in 0..(n - 1) |-> Uninit],
   mutex |-> MutexInit, data |-> DataInit, empty |-> EmptyInit(n)]

MultiInit ==
  /\ buffers \in [Buffers -> {BufferT(n) : n \in 1..MaxSize}]
  /\ brole \in [BufThreads -> {"put", "get"}]
  /\ bpc = [t \in BufThreads |-> IF brole[t] = "put" THEN "wait_empty" ELSE "wait_data"]
  /\ btup = [t \in BufThreads |-> IF brole[t] = "put" THEN <<t, 1>> ELSE Uninit]
  /\ BufIdle
  /\ SemIdle
  /\ RdvIdle
  /\ CntIdle

\* psem_wait(buffer->empty)
BPutWaitEmpty(t) ==
  LET b == BufferOf(t) IN
    /\ brole[t] = "put"
    /\ bpc[t] = "wait_empty"
    /\ PsemCanWait(buffers[b].empty)
    /\ buffers' = [buffers EXCEPT ![b].empty = PsemWait(@)]
    /\ bpc' = [bpc EXCEPT ![t] = "wait_mutex"]
    /\ UNCHANGED <<brole, btup, nonMultiVars>>

\* psem_wait(buffer->data)
BGetWaitData(t) ==
  LET b == BufferOf(t) IN
    /\ brole[t] = "get"
    /\ bpc[t] = "wait_data"
    /\ PsemCanWait(buffers[b].data)
    /\ buffers' = [buffers EXCEPT ![b].data = PsemWait(@)]
    /\ bpc' = [bpc EXCEPT ![t] = "wait_mutex"]
    /\ UNCHANGED <<brole, btup, nonMultiVars>>

\* psem_wait(buffer->mutex), in buffer_put and in buffer_get
BWaitMutex(t) ==
  LET m == MutexOf(BufferOf(t)) IN
    /\ bpc[t] = "wait_mutex"
    /\ PsemCanWait(buffers[m].mutex)
    /\ buffers' = [buffers EXCEPT ![m].mutex = PsemWait(@)]
    /\ bpc' = [bpc EXCEPT ![t] = IF brole[t] = "put" THEN "write" ELSE "read"]
    /\ UNCHANGED <<brole, btup, nonMultiVars>>

\* buffer->array[buffer->in].a = a; buffer->array[buffer->in].b = b;
BPutWrite(t) ==
  LET b == BufferOf(t) IN
    /\ bpc[t] = "write"
    /\ buffers' = [buffers EXCEPT ![b].array[buffers[b].in] = btup[t]]
    /\ bpc' = [bpc EXCEPT ![t] = "advance"]
    /\ UNCHANGED <<brole, btup, nonMultiVars>>

\* tuple->a = buffer->array[buffer->out].a; tuple->b = buffer->array[buffer->out].b;
BGetRead(t) ==
  LET b == BufferOf(t)
      v == buffers[b].array[buffers[b].out]
  IN
    /\ bpc[t] = "read"
    /\ IF v = Uninit
         THEN \E w \in (BufThreads \X {1}) \cup {Uninit} :
                btup' = [btup EXCEPT ![t] = w]
         ELSE btup' = [btup EXCEPT ![t] = v]
    /\ bpc' = [bpc EXCEPT ![t] = "advance"]
    /\ UNCHANGED <<buffers, brole, nonMultiVars>>

\* buffer->in = (buffer->in + 1) % buffer->size;
BPutAdvance(t) ==
  LET b == BufferOf(t) IN
    /\ brole[t] = "put"
    /\ bpc[t] = "advance"
    /\ buffers' = [buffers EXCEPT ![b].in = NextIn(@, buffers[b].size)]
    /\ bpc' = [bpc EXCEPT ![t] = "signal_mutex"]
    /\ UNCHANGED <<brole, btup, nonMultiVars>>

\* buffer->out = (buffer->out + 1) % buffer->size;
BGetAdvance(t) ==
  LET b == BufferOf(t) IN
    /\ brole[t] = "get"
    /\ bpc[t] = "advance"
    /\ buffers' = [buffers EXCEPT ![b].out = NextOut(@, buffers[b].size)]
    /\ bpc' = [bpc EXCEPT ![t] = "signal_mutex"]
    /\ UNCHANGED <<brole, btup, nonMultiVars>>

\* psem_signal(buffer->mutex), in buffer_put and in buffer_get
BSignalMutex(t) ==
  LET m == MutexOf(BufferOf(t)) IN
    /\ bpc[t] = "signal_mutex"
    /\ buffers' = [buffers EXCEPT ![m].mutex = PsemSignal(@)]
    /\ bpc' = [bpc EXCEPT ![t] = IF brole[t] = "put" THEN "signal_data" ELSE "signal_empty"]
    /\ UNCHANGED <<brole, btup, nonMultiVars>>

\* psem_signal(buffer->data): buffer_put returns.
BPutSignalData(t) ==
  LET b == BufferOf(t) IN
    /\ bpc[t] = "signal_data"
    /\ buffers' = [buffers EXCEPT ![b].data = PsemSignal(@)]
    /\ bpc' = [bpc EXCEPT ![t] = "done"]
    /\ UNCHANGED <<brole, btup, nonMultiVars>>

\* psem_signal(buffer->empty): buffer_get returns.
BGetSignalEmpty(t) ==
  LET b == BufferOf(t) IN
    /\ bpc[t] = "signal_empty"
    /\ buffers' = [buffers EXCEPT ![b].empty = PsemSignal(@)]
    /\ bpc' = [bpc EXCEPT ![t] = "done"]
    /\ UNCHANGED <<brole, btup, nonMultiVars>>

\* One statement of thread t.
BStep(t) ==
  \/ BPutWaitEmpty(t)
  \/ BGetWaitData(t)
  \/ BWaitMutex(t)
  \/ BPutWrite(t)
  \/ BGetRead(t)
  \/ BPutAdvance(t)
  \/ BGetAdvance(t)
  \/ BSignalMutex(t)
  \/ BPutSignalData(t)
  \/ BGetSignalEmpty(t)

MultiNext == \E t \in BufThreads : BStep(t)

MultiSpec == MultiInit /\ [][MultiNext]_vars

(***************************************************************************)
(* rendezvous.c: threadA and threadB, each LOOPS times: wait on the        *)
(* semaphore the other thread signals, print a line, sleep, signal the     *)
(* own semaphore.  main initialises semA and semB, creates the threads,    *)
(* joins them and destroys the semaphores.                                 *)
(***************************************************************************)
\* semB = psem_init(2)
SemBInitTwo == PsemInit(2)

\* semA = psem_init(1)
SemAInit == PsemInit(1)

\* semB = psem_init(1)
SemBInit == PsemInit(1)

\* main up to the two pthread_create calls: both threads are at the top of
\* their loop with i = 0, main is at the first pthread_join.
RdvInit ==
  /\ semA = SemAInit
  /\ semB = SemBInit
  /\ pcA = "wait"
  /\ iA = 0
  /\ pcB = "wait"
  /\ iB = 0
  /\ pcMain = "joinA"
  /\ BufIdle
  /\ SemIdle
  /\ MultiIdle
  /\ CntIdle

\* The end of an iteration of the for loop: i++, then i < LOOPS is tested;
\* the thread goes round again or reaches pthread_exit(0).
LoopNext(i) == IF i + 1 < LOOPS THEN "wait" ELSE "exit"

\* threadA: psem_wait(semB)
AWait ==
  /\ pcA = "wait"
  /\ PsemCanWait(semB)
  /\ semB' = PsemWait(semB)
  /\ pcA' = "print"
  /\ UNCHANGED <<semA, iA, pcB, iB, pcMain, nonRdvVars>>

\* threadA: printf("A%d\n", i); sleep(rand() % MAX_SLEEP_TIME);
APrint ==
  /\ pcA = "print"
  /\ pcA' = "signal"
  /\ UNCHANGED <<semA, semB, iA, pcB, iB, pcMain, nonRdvVars>>

\* threadA without psem_signal(semA).
ASignalMissing ==
  /\ pcA = "signal"
  /\ iA' = iA + 1
  /\ pcA' = LoopNext(iA)
  /\ UNCHANGED <<semA, semB, pcB, iB, pcMain, nonRdvVars>>

\* threadA: psem_signal(semA); i++
ASignal ==
  /\ pcA = "signal"
  /\ semA' = PsemSignal(semA)
  /\ iA' = iA + 1
  /\ pcA' = LoopNext(iA)
  /\ UNCHANGED <<semB, pcB, iB, pcMain, nonRdvVars>>

\* threadB: psem_wait(semA)
BWait ==
  /\ pcB = "wait"
  /\ PsemCanWait(semA)
  /\ semA' = PsemWait(semA)
  /\ pcB' = "print"
  /\ UNCHANGED <<semB, pcA, iA, iB, pcMain, nonRdvVars>>

\* threadB: printf("B%d\n", i); sleep(rand() % MAX_SLEEP_TIME);
BPrint ==
  /\ pcB = "print"
  /\ pcB' = "signal"
  /\ UNCHANGED <<semA, semB, pcA, iA, iB, pcMain, nonRdvVars>>

\* threadB: psem_signal(semB); i++
BSignal ==
  /\ pcB = "signal"
  /\ semB' = PsemSignal(semB)
  /\ iB' = iB + 1
  /\ pcB' = LoopNext(iB)
  /\ UNCHANGED <<semA, pcA, iA, pcMain, nonRdvVars>>

\* main: pthread_join(tidA, NULL) returns once threadA has exited.
MainJoinA ==
  /\ pcMain = "joinA"
  /\ pcA = "exit"
  /\ pcMain' = "joinB"
  /\ UNCHANGED <<semA, semB, pcA, iA, pcB, iB, nonRdvVars>>

\* main: pthread_join(tidB, NULL) returns once threadB has exited.
MainJoinB ==
  /\ pcMain = "joinB"
  /\ pcB = "exit"
  /\ pcMain' = "destroy"
  /\ UNCHANGED <<semA, semB, pcA, iA, pcB, iB, nonRdvVars>>

\* main: psem_destroy(semA); psem_destroy(semB); return 0;
MainDestroy ==
  /\ pcMain = "destroy"
  /\ pcMain' = "return"
  /\ UNCHANGED <<semA, semB, pcA, iA, pcB, iB, nonRdvVars>>

ThreadA == AWait \/ APrint \/ ASignal

ThreadB == BWait \/ BPrint \/ BSignal

Main == MainJoinA \/ MainJoinB \/ MainDestroy

RdvNext == ThreadA \/ ThreadB \/ Main

RdvSpec == RdvInit /\ [][RdvNext]_vars

\* Every thread that can run gets the processor again and again.
FairRdvSpec ==
  RdvInit /\ [][RdvNext]_vars
    /\ WF_vars(ThreadA) /\ WF_vars(ThreadB) /\ WF_vars(Main)

(***************************************************************************)
(* mutex.c: run_test creates the incrementing and the decrementing threads *)
(* of one test case, joins them and reports the value of counter.  Each    *)
(* thread runs the inc or the dec function of the test case: a loop whose  *)
(* body updates counter with no synchronisation, under the pthread mutex,  *)
(* under the test-and-set spinlock, or with an atomic add or subtract.     *)
(* counter is a volatile int: counter += INCREMENT is a load, an add and   *)
(* a store, and other threads can run between the load and the store.      *)
(* A run of the model has fewer threads and iterations than the program.   *)
(***************************************************************************)

\* DEC_ITERATIONS for it iterations of each of ni incrementing threads and
\* nd decrementing threads; / of C on ints, left to right.
DecIterations(it, ni, nd) == ((it * ni * INCREMENT) \div nd) \div DECREMENT

DEC_ITERATIONS == DecIterations(INC_ITERATIONS, INC_THREADS, DEC_THREADS)

\* The threads and iterations of a run of the model.  As with the constants
\* of the program, DEC_ITERATIONS is computed without a remainder.
CntConfigs ==
  {c \in [incThreads : 1..MaxCntThreads, decThreads : 1..MaxCntThreads,
          incIter : 1..MaxIterations] :
     /\ c.incThreads + c.decThreads <= MaxCntThreads
     /\ (c.incIter * c.incThreads * INCREMENT) % (c.decThreads * DECREMENT) = 0}

\* tests[]
SyncTests == {"Pthread mutex", "Spinlock", "Atomic add/sub"}

\* The first statement of the loop body of the test case's functions.
FirstPc(name) ==
  CASE name = "No synchronization" -> "load"
    [] name = "Pthread mutex" -> "lock"
    [] name = "Spinlock" -> "lock"
    [] name = "Atomic add/sub" -> "add"

\* run_test(test) after counter = 0; no thread is created yet.
RunTestInit(name) ==
  /\ \E c \in CntConfigs :
       test = [name |-> name, incThreads |-> c.incThreads,
               decThreads |-> c.decThreads, incIter |-> c.incIter,
               decIter |-> DecIterations(c.incIter, c.incThreads, c.decThreads)]
  /\ counter = 0
  /\ lock = FALSE
  /\ pmutex = 0
  /\ cpc = [t \in CntThreads |-> "none"]
  /\ ci = [t \in CntThreads |-> 0]
  /\ creg = [t \in CntThreads |-> 0]
  /\ nthreads = 0
  /\ joined = 0
  /\ cmain = "create"
  /\ tcounter = 0

SyncInit ==
  /\ BufIdle
  /\ SemIdle
  /\ MultiIdle
  /\ RdvIdle
  /\ \E name \in SyncTests : RunTestInit(name)

NoSyncInit ==
  /\ BufIdle
  /\ SemIdle
  /\ MultiIdle
  /\ RdvIdle
  /\ RunTestInit("No synchronization")

\* thread->type = inc: the threads created first.
IsInc(t) == t <= test.incThreads

\* thread->type = dec
IsDec(t) == t > test.incThreads /\ t <= test.incThreads + test.decThreads

\* What one iteration adds to counter.
Delta(t) == IF IsInc(t) THEN INCREMENT ELSE 0 - DECREMENT

\* The bound of the thread's loop.
Iterations(t) == IF IsInc(t) THEN test.incIter ELSE test.decIter

\* i++ and i < ..._ITERATIONS: the next iteration, or return NULL and
\* pthread_exit(0) in generic_thread.
LoopEnd(t) ==
  /\ ci' = [ci EXCEPT ![t] = @ + 1]
  /\ cpc' = [cpc EXCEPT ![t] = IF ci[t] + 1 < Iterations(t)
                                 THEN FirstPc(test.name) ELSE "done"]

\* counter += INCREMENT, counter -= DECREMENT: the load.
CounterLoad(t) ==
  /\ cpc[t] = "load"
  /\ creg' = [creg EXCEPT ![t] = counter]
  /\ cpc' = [cpc EXCEPT ![t] = "store"]
  /\ UNCHANGED <<test, counter, lock, pmutex, ci, nthreads, joined, cmain,
                 tcounter, nonCntVars>>

\* counter += INCREMENT, counter -= DECREMENT: the store, with no lock held;
\* the iteration ends.
CounterStore(t) ==
  /\ cpc[t] = "store"
  /\ counter' = creg[t] + Delta(t)
  /\ LoopEnd(t)
  /\ UNCHANGED <<test, lock, pmutex, creg, nthreads, joined, cmain, tcounter,
                 nonCntVars>>

\* counter += INCREMENT, counter -= DECREMENT: the store, in a critical
\* section.
CounterStoreLocked(t) ==
  /\ cpc[t] = "store"
  /\ counter' = creg[t] + Delta(t)
  /\ cpc' = [cpc EXCEPT ![t] = "unlock"]
  /\ UNCHANGED <<test, lock, pmutex, ci, creg, nthreads, joined, cmain,
                 tcounter, nonCntVars>>

\* pthread_mutex_lock(&mutex): returns once the calling thread holds the
\* mutex.
MutexLock(t) ==
  /\ cpc[t] = "lock"
  /\ pmutex = 0
  /\ pmutex' = t
  /\ cpc' = [cpc EXCEPT ![t] = "load"]
  /\ UNCHANGED <<test, counter, lock, ci, creg, nthreads, joined, cmain,
                 tcounter, nonCntVars>>

\* pthread_mutex_unlock(&mutex); the iteration ends.
MutexUnlock(t) ==
  /\ cpc[t] = "unlock"
  /\ pmutex' = 0
  /\ LoopEnd(t)
  /\ UNCHANGED <<test, counter, lock, creg, nthreads, joined, cmain, tcounter,
                 nonCntVars>>

\* A spin_lock whose test-and-set leaves lock as it was.
SpinLockNoSet(t) ==
  /\ cpc[t] = "lock"
  /\ cpc' = [cpc EXCEPT ![t] = "load"]
  /\ UNCHANGED <<test, counter, lock, pmutex, ci, creg, nthreads, joined,
                 cmain, tcounter, nonCntVars>>

\* spin_lock(): one __sync_lock_test_and_set(&lock, true).  It sets lock and
\* returns the previous value: true, and the loop tries again; false, and
\* spin_lock returns.
SpinLock(t) ==
  /\ cpc[t] = "lock"
  /\ lock' = TRUE
  /\ cpc' = IF lock THEN cpc ELSE [cpc EXCEPT ![t] = "load"]
  /\ UNCHANGED <<test, counter, pmutex, ci, creg, nthreads, joined, cmain,
                 tcounter, nonCntVars>>

\* spin_unlock(): __sync_lock_release(&lock); the iteration ends.
SpinUnlock(t) ==
  /\ cpc[t] = "unlock"
  /\ lock' = FALSE
  /\ LoopEnd(t)
  /\ UNCHANGED <<test, counter, pmutex, creg, nthreads, joined, cmain,
                 tcounter, nonCntVars>>

\* __sync_fetch_and_add(&counter, INCREMENT),
\* __sync_fetch_and_sub(&counter, DECREMENT); the iteration ends.
AtomicAdd(t) ==
  /\ cpc[t] = "add"
  /\ counter' = counter + Delta(t)
  /\ LoopEnd(t)
  /\ UNCHANGED <<test, lock, pmutex, creg, nthreads, joined, cmain, tcounter,
                 nonCntVars>>

inc_no_sync(t) ==
  /\ test.name = "No synchronization"
  /\ IsInc(t)
  /\ (CounterLoad(t) \/ CounterStore(t))

dec_no_sync(t) ==
  /\ test.name = "No synchronization"
  /\ IsDec(t)
  /\ (CounterLoad(t) \/ CounterStore(t))

inc_mutex(t) ==
  /\ test.name = "Pthread mutex"
  /\ IsInc(t)
  /\ (MutexLock(t) \/ CounterLoad(t) \/ CounterStoreLocked(t) \/ MutexUnlock(t))

dec_mutex(t) ==
  /\ test.name = "Pthread mutex"
  /\ IsDec(t)
  /\ (MutexLock(t) \/ CounterLoad(t) \/ CounterStoreLocked(t) \/ MutexUnlock(t))

inc_tas_spinlock(t) ==
  /\ test.name = "Spinlock"
  /\ IsInc(t)
  /\ (SpinLock(t) \/ CounterLoad(t) \/ CounterStoreLocked(t) \/ SpinUnlock(t))

dec_tas_spinlock(t) ==
  /\ test.name = "Spinlock"
  /\ IsDec(t)
  /\ (SpinLock(t) \/ CounterLoad(t) \/ CounterStoreLocked(t) \/ SpinUnlock(t))

inc_atomic(t) ==
  /\ test.name = "Atomic add/sub"
  /\ IsInc(t)
  /\ AtomicAdd(t)

dec_atomic(t) ==
  /\ test.name = "Atomic add/sub"
  /\ IsDec(t)
  /\ AtomicAdd(t)

\* run_test: pthread_create of the next thread, the incrementing threads
\* first; the thread starts to run its function.
RunTestCreate ==
  /\ cmain = "create"
  /\ cpc' = [cpc EXCEPT ![nthreads + 1] = FirstPc(test.name)]
  /\ nthreads' = nthreads + 1
  /\ cmain' = IF nthreads + 1 < test.incThreads + test.decThreads
               THEN "create" ELSE "join"
  /\ UNCHANGED <<test, counter, lock, pmutex, ci, creg, joined, tcounter,
                 nonCntVars>>

\* run_test: pthread_join of the next thread returns once it has exited.
RunTestJoin ==
  /\ cmain = "join"
  /\ joined < nthreads
  /\ cpc[joined + 1] = "done"
  /\ joined' = joined + 1
  /\ UNCHANGED <<test, counter, lock, pmutex, cpc, ci, creg, nthreads, cmain,
                 tcounter, nonCntVars>>

\* run_test after the last pthread_join: test->counter = counter and the
\* report.
RunTestReport ==
  /\ cmain = "join"
  /\ joined = nthreads
  /\ tcounter' = counter
  /\ cmain' = "done"
  /\ UNCHANGED <<test, counter, lock, pmutex, cpc, ci, creg, nthreads, joined,
                 nonCntVars>>

run_test == RunTestCreate \/ RunTestJoin \/ RunTestReport

SyncNext ==
  \/ \E t \in CntThreads :
       \/ inc_mutex(t)
       \/ dec_mutex(t)
       \/ inc_tas_spinlock(t)
       \/ dec_tas_spinlock(t)
       \/ inc_atomic(t)
       \/ dec_atomic(t)
  \/ run_test

SyncSpec == SyncInit /\ [][SyncNext]_vars

NoSyncNext ==
  \/ \E t \in CntThreads : inc_no_sync(t) \/ dec_no_sync(t)
  \/ run_test

NoSyncSpec == NoSyncInit /\ [][NoSyncNext]_vars

(***************************************************************************)
(* Properties of the bounded buffer.                                       *)
(***************************************************************************)
\* How often x occurs in the sequence q.
CountIn(q, x) == Cardinality({i \in 1..Len(q) : q[i] = x})

\* The sequence p is a prefix of the sequence q.
IsPrefix(p, q) == Len(p) <= Len(q) /\ \A i \in 1..Len(p) : p[i] = q[i]

\* Every buffer_put that was called has returned and as many buffer_get
\* calls have returned: every inserted item has been retrieved.
AllRetrieved == PutsDone = Len(putLog) /\ GetsDone = Len(putLog)

\* Thread t is between psem_wait(buffer->mutex) and psem_signal(buffer->mutex).
InCS(t) == pc[t] \in {"write", "read", "advance", "signal_mutex"}

\* Thread t is past the first psem_wait of its call and has not yet executed
\* the last psem_signal.
InFlight(t) == pc[t] \notin {"idle", "wait_empty", "wait_data"}

\* C1: no loss, no duplication. Once every inserted item has been retrieved,
\* each tuple was returned by buffer_get exactly as often as it was passed
\* to buffer_put (and nothing else was returned).
C1_NoLossNoDup ==
  AllRetrieved =>
    /\ \A x \in Items : CountIn(getLog, x) = CountIn(putLog, x)
    /\ \A i \in 1..Len(getLog) : getLog[i] \in Items

\* Two producers and two consumers, every item retrieved.
C1_Witness ==
  /\ AllRetrieved
  /\ nprod = 2 /\ ncons = 2
  /\ Len(putLog) = 2

\* C2: with one producer and one consumer, the tuples buffer_get has
\* returned are at every point a prefix of the tuples passed to buffer_put,
\* in call order.
C2_FifoOneProducerOneConsumer ==
  (nprod = 1 /\ ncons = 1) => IsPrefix(getLog, putLog)

\* Three tuples went through a buffer of two slots: in and out wrapped.
C2_Witness ==
  /\ nprod = 1 /\ ncons = 1
  /\ size = 2
  /\ Len(getLog) = 3
  /\ getLog = <<<<1, 1>>, <<1, 2>>, <<1, 3>>>>

\* C3: no overwrite. A producer about to write array[in] finds that slot
\* read (or never written), and while every slot holds an unread item the
\* count of empty is 0, so psem_wait(buffer->empty) does not return.
C3_NoOverwrite ==
  /\ \A t \in Producers : pc[t] = "write" => slot[in] = "EMPTY"
  /\ (Alive /\ Unread = size) => ~PsemCanWait(empty)

\* A producer waits on empty while both slots hold unread items.
C3_Witness ==
  /\ size = 2
  /\ Unread = 2
  /\ \E t \in Producers : pc[t] = "wait_empty"

\* C4 as stated: data + empty = N in every reachable state of a buffer that
\* has its semaphores, also while a buffer_put or buffer_get is part-way
\* through its steps.
C4_SlotConservationAlways == Alive => data + empty = size

\* C4 as amended: data + empty = N whenever no call is between its first
\* psem_wait and its last psem_signal, and data + empty <= N always, from
\* buffer_init to buffer_destroy.
C4_SlotConservationQuiescent ==
  Alive =>
    /\ data + empty <= size
    /\ (\A t \in Threads : ~InFlight(t)) => data + empty = size

\* No call in flight, one item in a buffer of two slots.
C4_Witness ==
  /\ \A t \in Threads : ~InFlight(t)
  /\ size = 2
  /\ data = 1
  /\ empty = 1

\* C5: bounded blocking. A buffer_put called while the buffer holds N
\* unread items does not get past psem_wait(buffer->empty), hence does not
\* return, before a buffer_get completes after the call was issued; a
\* buffer_get called while the buffer holds no unread item does not get past
\* psem_wait(buffer->data) before a further buffer_put completes.  A call
\* completes with its last statement, psem_signal.
C5_BoundedBlocking ==
  /\ \A t \in Producers : mark[t] = "held" => pc[t] = "wait_empty"
  /\ \A t \in Consumers : mark[t] = "held" => pc[t] = "wait_data"

\* A put called on a full buffer has returned, and so has a get called on
\* an empty buffer.
C5_Witness ==
  /\ \E t \in Producers : mark[t] = "released" /\ pc[t] = "idle"
  /\ \E t \in Consumers : mark[t] = "released" /\ pc[t] = "idle"

\* C6: mutual exclusion. At most one thread is between
\* psem_wait(buffer->mutex) and psem_signal(buffer->mutex).
C6_MutualExclusion == Cardinality({t \in Threads : InCS(t)}) <= 1

\* A consumer is in the critical section while a producer waits for the
\* mutex.
C6_Witness ==
  /\ \E t \in Consumers : InCS(t)
  /\ \E t \in Producers : pc[t] = "wait_mutex" /\ ~PsemCanWait(mutex)

\* C7: completion without deadlock. With P * k = C * m (FairInit) and fair
\* scheduling every thread eventually returns from all its calls; then
\* P * k items were produced and consumed, in = out and, until
\* buffer_destroy, data = 0 and empty = N.
C7_Final ==
  AllDone =>
    /\ Len(putLog) = nprod * kput
    /\ Len(getLog) = nprod * kput
    /\ Alive => (data = 0 /\ empty = size)
    /\ in = out

C7_Completion == <>AllDone /\ []C7_Final

\* One producer and two consumers have returned from all their calls.
C7_Witness ==
  /\ AllDone
  /\ nprod = 1 /\ ncons = 2 /\ kput = 2 /\ kget = 1
  /\ Len(getLog) = 2

(***************************************************************************)
(* Properties of the counting semaphore.                                   *)
(***************************************************************************)
\* C8: the count never goes negative. The psem_wait calls that have
\* returned minus the psem_signal calls that have occurred never exceed the
\* initial count c: every return took a unit that psem_init or one signal
\* put there.
C8_CountNeverNegative ==
  /\ swaited - ssignalled <= sinit
  /\ scount = sinit + ssignalled - swaited
  /\ scount >= 0

\* One signal on a count of 0 with two threads blocked: one of the two has
\* returned, the other is still blocked.
C8_Witness ==
  /\ sinit = 0
  /\ ssignalled = 1
  /\ swaited = 1
  /\ Cardinality(spend) = 2
  /\ Cardinality(Blocked) >= 1

\* C9: no lost wakeup. A psem_signal issued while no thread is blocked in
\* psem_wait increments the count by exactly 1 and leaves that unit free,
\* and a thread inside psem_wait while a unit is free is not blocked: it can
\* return at once.
C9_NoLostWakeup ==
  /\ [][(ssignalled' = ssignalled + 1 /\ Blocked = {}) =>
          /\ scount' = scount + 1
          /\ swoken' = swoken
          /\ scount' - Cardinality(swoken') > 0]_vars
  /\ [](\A u \in SemThreads :
          (spc[u] = "wait" /\ Free > 0) => ENABLED SemWaitReturn(u))

\* Two signals with no thread waiting, then one psem_wait that returned.
C9_Witness ==
  /\ sinit = 0
  /\ ssignalled = 2
  /\ swaited = 1
  /\ scount = 1
  /\ spend = {}
  /\ swoken = {}

\* C10: semaphore liveness.  A psem_signal that occurs while threads are
\* blocked in psem_wait wakes exactly one of those threads; the unit it
\* added stays in the count until that thread takes it; under fair
\* scheduling the thread eventually returns from psem_wait, taking exactly
\* that one unit; and no thread that was not blocked at the signal returns
\* on account of it.
C10_OneOfThosePendingReturns ==
  /\ [][(ssignalled' = ssignalled + 1 /\ Blocked # {}) =>
          \E w \in Blocked : w \notin swoken /\ swoken' = swoken \cup {w}]_vars
  /\ [](swoken \subseteq Pending /\ Cardinality(swoken) <= scount)
  /\ \A u \in SemThreads : (u \in swoken) ~> (u \notin swoken)
  /\ [][\A u \in SemThreads :
          (u \in swoken /\ u \notin swoken') =>
            /\ spc'[u] = "idle"
            /\ swaited' = swaited + 1
            /\ scount' = scount - 1]_vars
  /\ [][\A u \in SemThreads :
          (spc[u] = "wait" /\ spc'[u] = "idle" /\ u \notin swoken) =>
            /\ Free > 0
            /\ swoken' = swoken]_vars

\* A signal found two threads blocked and woke one of them, which has
\* returned; the other is still blocked, and so is a thread that called
\* psem_wait after the signal.
C10_Witness ==
  /\ sinit = 0
  /\ ssignalled = 1
  /\ swaited = 1
  /\ Cardinality(spend) = 2
  /\ swoken = {}
  /\ Cardinality(spend \cap Blocked) = 1
  /\ Cardinality(Blocked) = 2

\* buffer_put calls that have executed buffer->in = (buffer->in + 1) % size.
PutsAdvanced ==
  PutsDone + Cardinality({t \in Producers : pc[t] \in {"signal_mutex", "signal_data"}})

\* buffer_get calls that have executed buffer->out = (buffer->out + 1) % size.
GetsAdvanced ==
  GetsDone + Cardinality({t \in Consumers : pc[t] \in {"signal_mutex", "signal_empty"}})

\* C11: index range. in and out stay in 0..size-1; a statement of
\* buffer_put changes in only at line 109, by exactly 1 modulo size, and
\* never changes out; a statement of buffer_get changes out only at line
\* 144, by exactly 1 modulo size, and never changes in; every call advances
\* its index once, so in (out) is the number of puts (gets) that advanced,
\* modulo size.
C11_IndexRange ==
  /\ [](/\ in \in 0..(size - 1)
        /\ out \in 0..(size - 1)
        /\ in = PutsAdvanced % size
        /\ out = GetsAdvanced % size)
  /\ [][\A t \in Producers :
          pc'[t] # pc[t] =>
            /\ out' = out
            /\ in' = IF pc[t] = "advance" THEN (in + 1) % size ELSE in]_vars
  /\ [][\A t \in Consumers :
          pc'[t] # pc[t] =>
            /\ in' = in
            /\ out' = IF pc[t] = "advance" THEN (out + 1) % size ELSE out]_vars

\* Two slots: two puts returned and in wrapped to 0, one get returned and
\* out is 1.
C11_Witness ==
  /\ size = 2
  /\ PutsDone = 2
  /\ in = 0
  /\ GetsDone = 1
  /\ out = 1
  /\ \A t \in Threads : pc[t] = "idle"

\* C12: fill-then-block, one producer and one consumer on a fresh buffer of
\* capacity N.  (a) In its first N calls the producer is never blocked in
\* psem_wait(buffer->empty), and while no buffer_get was issued it is
\* blocked nowhere.  (b) Its (N+1)th call stays blocked in
\* psem_wait(buffer->empty) as long as no buffer_get has completed, so at
\* least until one is issued.  (c) The first buffer_get returns the first
\* tuple that was put.  (d) Once it has, the pending buffer_put completes.
C12_FillThenBlock ==
  /\ [](\A t \in Producers :
          /\ (pc[t] = "wait_empty" /\ Len(putLog) <= size) =>
               ENABLED PutWaitEmpty(t)
          /\ (pc[t] # "idle" /\ Len(putLog) <= size /\ GetsDone = 0
                /\ \A u \in Consumers : pc[u] = "idle") =>
               ENABLED Step(t)
          /\ (pc[t] # "idle" /\ Len(putLog) = size + 1 /\ GetsDone = 0) =>
               (pc[t] = "wait_empty" /\ ~ENABLED Step(t)))
  /\ [](Len(getLog) >= 1 => getLog[1] = putLog[1])
  /\ (Len(putLog) = size + 1 /\ GetsDone >= 1) ~> (PutsDone >= size + 1)

\* The spec's case: capacity 2, two puts returned, the third is blocked in
\* psem_wait(buffer->empty) and the consumer has just issued its buffer_get.
C12_Witness ==
  /\ size = 2
  /\ nprod = 1 /\ ncons = 1
  /\ PutsDone = 2
  /\ Len(putLog) = 3
  /\ pc[1] = "wait_empty"
  /\ ~PsemCanWait(empty)
  /\ \E u \in Consumers : pc[u] = "wait_data"
  /\ GetsDone = 0

\* The reads buffer_get has made inside its critical section.
NumRead ==
  Len(getLog)
    + Cardinality({t \in Consumers :
                     pc[t] \in {"advance", "signal_mutex", "signal_empty"}})

\* C13: insertion order is delivery order, with several producers and
\* consumers.  The k-th read made inside the critical section of buffer_get
\* yields the tuple of the k-th write made inside the critical section of
\* buffer_put; the k-th write lands on index (k - 1) % size, the one after
\* the index of the write before it, and the k-th read takes index
\* (k - 1) % size: no tuple is overwritten or skipped.
C13_ReadOrderIsWriteOrder ==
  /\ [](NumRead <= Len(writeLog))
  /\ [][\A t \in Producers :
          (pc[t] = "write" /\ pc'[t] = "advance") =>
            /\ in = Len(writeLog) % size
            /\ writeLog' = Append(writeLog, tup[t])
            /\ array'[in] = tup[t]]_vars
  /\ [][\A t \in Consumers :
          (pc[t] = "read" /\ pc'[t] = "advance") =>
            /\ out = NumRead % size
            /\ tup'[t] = writeLog[NumRead + 1]]_vars

\* Two producers, two consumers: the producer that called second wrote
\* first, and the consumer that read second returned first.
C13_Witness ==
  /\ nprod = 2 /\ ncons = 2
  /\ putLog = <<<<1, 1>>, <<2, 1>>>>
  /\ writeLog = <<<<2, 1>>, <<1, 1>>>>
  /\ getLog = <<<<1, 1>>, <<2, 1>>>>

\* The slots that hold no unread item.
Vacant == size - Unread

\* The threads of T whose next statement is one of S.
At(T, S) == Cardinality({t \in T : pc[t] \in S})

\* C14 as stated: in every reachable state of a buffer that has its
\* semaphores data is the number of items written and not yet read and
\* empty is the number of vacant slots.
C14_CountsMirrorAlways == Alive => (data = Unread /\ empty = Vacant)

\* C14 as amended: the counts mirror the array whenever no call is between
\* its first psem_wait and its last psem_signal.  In between, data lags by
\* the puts that wrote and did not yet signal and by the gets that passed
\* psem_wait(buffer->data) and did not yet read; empty lags by the puts that
\* passed psem_wait(buffer->empty) and did not yet write and by the gets
\* that read and did not yet signal.
C14_CountsMirrorQuiescent ==
  Alive =>
    /\ data = Unread - At(Producers, {"advance", "signal_mutex", "signal_data"})
                     - At(Consumers, {"wait_mutex", "read"})
    /\ empty = Vacant - At(Producers, {"wait_mutex", "write"})
                      - At(Consumers, {"advance", "signal_mutex", "signal_empty"})
    /\ (\A t \in Threads : ~InFlight(t)) => (data = Unread /\ empty = Vacant)

\* No call in flight and both slots hold an unread item.
C14_Witness ==
  /\ \A t \in Threads : ~InFlight(t)
  /\ size = 2
  /\ Unread = 2
  /\ data = 2
  /\ empty = 0

\* C15: zero capacity deadlocks.  After buffer_init with size 0 no thread
\* gets past the first psem_wait of its call, none of its statements can
\* execute, and no buffer_put and no buffer_get ever returns.
C15_ZeroCapacityDeadlocks ==
  /\ [](size = 0 =>
          /\ \A t \in Producers : pc[t] \in {"idle", "wait_empty"}
          /\ \A t \in Consumers : pc[t] \in {"idle", "wait_data"}
          /\ \A t \in Threads : pc[t] # "idle" => ~ENABLED Step(t)
          /\ PutsDone = 0
          /\ GetsDone = 0)
  /\ [][size = 0 => todo' = todo]_vars

\* Size 0: two producers are blocked in psem_wait(buffer->empty) and two
\* consumers in psem_wait(buffer->data).
C15_Witness ==
  /\ size = 0
  /\ nprod = 2 /\ ncons = 2
  /\ \A t \in Producers : pc[t] = "wait_empty"
  /\ \A t \in Consumers : pc[t] = "wait_data"

\* Thread t is blocked in the first psem_wait of its call.
BlockedFirst(t) ==
  \/ t \in Producers /\ pc[t] = "wait_empty" /\ ~PsemCanWait(empty)
  \/ t \in Consumers /\ pc[t] = "wait_data" /\ ~PsemCanWait(data)

\* C16: a blocked thread holds no mutex.  While a thread is blocked in
\* psem_wait(buffer->empty) or psem_wait(buffer->data), every unit taken
\* out of buffer->mutex is held by another thread, one inside the critical
\* section; and a thread inside a call that is not at one of the three
\* psem_wait calls, the thread inside the critical section among them, can
\* always execute its next statement.
C16_BlockedHoldsNoMutex ==
  /\ \A t \in Threads :
       BlockedFirst(t) =>
         /\ ~InCS(t)
         /\ mutex = MutexInit - Cardinality({u \in Threads \ {t} : InCS(u)})
  /\ \A t \in Threads :
       pc[t] \notin {"idle", "wait_empty", "wait_data", "wait_mutex"} =>
         ENABLED Step(t)

\* A producer is blocked in psem_wait(buffer->empty) while a consumer holds
\* the mutex.
C16_Witness ==
  /\ \E t \in Producers : BlockedFirst(t)
  /\ \E u \in Consumers : InCS(u)
  /\ ~PsemCanWait(mutex)

\* Thread t executes the write of buffer_put (lines 102-103).
IsWrite(t) == t \in Producers /\ pc[t] = "write" /\ pc'[t] = "advance"

\* Thread t executes the read of buffer_get (lines 136-137).
IsRead(t) == t \in Consumers /\ pc[t] = "read" /\ pc'[t] = "advance"

\* C17: per-slot cycle.  A slot is EMPTY or FILLED; a write lands on an
\* EMPTY slot and makes it FILLED, a read lands on a FILLED slot, yields
\* the tuple the last write put there and makes the slot EMPTY, and nothing
\* else changes the state of a slot.  So the writes and the reads of a slot
\* alternate, starting with a write.
C17_SlotCycle ==
  /\ [](\A i \in DOMAIN slot :
          /\ slot[i] \in {"EMPTY", "FILLED"}
          /\ (Alive /\ slot[i] = "FILLED") => array[i] \in Items)
  /\ [][\A t \in Threads :
          /\ IsWrite(t) =>
               /\ slot[in] = "EMPTY"
               /\ slot' = [slot EXCEPT ![in] = "FILLED"]
          /\ IsRead(t) =>
               /\ slot[out] = "FILLED"
               /\ tup'[t] = array[out]
               /\ tup'[t] = writeLog[Len(writeLog) - Unread + 1]
               /\ slot' = [slot EXCEPT ![out] = "EMPTY"]]_vars
  /\ [][(\A t \in Threads : ~IsWrite(t) /\ ~IsRead(t)) => slot' = slot]_vars

\* Slot 0 of a buffer of two slots is in its second cycle: written, read,
\* written again and not yet read, while slot 1 was written and read once.
C17_Witness ==
  /\ size = 2
  /\ Len(writeLog) = 3
  /\ NumRead = 2
  /\ slot[0] = "FILLED"
  /\ slot[1] = "EMPTY"
  /\ array[0] = writeLog[3]

\* The buffer_put calls that have passed psem_wait(buffer->empty) and have
\* not yet executed psem_signal(buffer->data).
PutsInFlight == Cardinality({t \in Producers : InFlight(t)})

\* The buffer_get calls that have passed psem_wait(buffer->data) and have
\* not yet executed psem_signal(buffer->empty).
GetsInFlight == Cardinality({t \in Consumers : InFlight(t)})

\* C23: in-flight slot accounting.  In every reachable state of a buffer of
\* capacity N > 0, from buffer_init to buffer_destroy, data + empty + the buffer_put calls in flight + the
\* buffer_get calls in flight = N; hence both counts stay within 0..N and
\* data never exceeds the number of items written and not yet read.
C23_InFlightAccounting ==
  /\ size > 0
  /\ Alive =>
       /\ data + empty + PutsInFlight + GetsInFlight = size
       /\ data \in 0..size
       /\ empty \in 0..size
       /\ data <= Unread

\* A put and a get are in flight at once in a buffer of two slots: both
\* counts are 0 and the two calls account for the two slots.
C23_Witness ==
  /\ size = 2
  /\ PutsInFlight = 1
  /\ GetsInFlight = 1
  /\ data = 0
  /\ empty = 0
  /\ Unread >= 1

(***************************************************************************)
(* Properties of several buffers side by side.                             *)
(***************************************************************************)
\* Thread t is inside the critical section of the buffer it was passed.
BInCS(t) == bpc[t] \in {"write", "read", "advance", "signal_mutex"}

\* The threads inside the critical section of buffer b.
InCSOf(b) == {t \in BufThreads : BufferOf(t) = b /\ BInCS(t)}

\* C18 as stated: one lock for all buffers.  While a thread is inside the
\* critical section of one buffer no thread is inside the critical section
\* of a different buffer.
C18_OneLockForAllBuffers ==
  \A t, u \in BufThreads :
    (BInCS(t) /\ BInCS(u)) => BufferOf(t) = BufferOf(u)

\* C18 as amended: one lock per buffer.  At most one thread is inside the
\* critical section of a buffer, the count of the buffer's mutex is 1 minus
\* the number of threads inside its critical section, and a thread waiting
\* for the mutex of a buffer can enter as soon as no thread is inside the
\* critical section of that buffer, whatever happens in the other buffers.
C18_OneLockPerBuffer ==
  /\ \A b \in Buffers :
       /\ Cardinality(InCSOf(b)) <= 1
       /\ buffers[b].mutex = MutexInit - Cardinality(InCSOf(b))
  /\ \A t \in BufThreads :
       bpc[t] = "wait_mutex" =>
         (ENABLED BWaitMutex(t) <=> InCSOf(BufferOf(t)) = {})

\* A thread is inside the critical section of buffer 1 and another inside
\* that of buffer 2, while a third waits for the mutex of buffer 1.
C18_Witness ==
  /\ InCSOf(1) # {}
  /\ InCSOf(2) # {}
  /\ \E t \in BufThreads :
       BufferOf(t) = 1 /\ bpc[t] = "wait_mutex" /\ ~ENABLED BWaitMutex(t)

(***************************************************************************)
(* Properties of rendezvous.c.                                             *)
(***************************************************************************)
\* Iterations threadA has started: it got past psem_wait(semB).
StartedA == iA + (IF pcA \in {"print", "signal"} THEN 1 ELSE 0)

\* Iterations threadB has started: it got past psem_wait(semA).
StartedB == iB + (IF pcB \in {"print", "signal"} THEN 1 ELSE 0)

\* Lines threadA has printed.
PrintedA == iA + (IF pcA = "signal" THEN 1 ELSE 0)

\* Lines threadB has printed.
PrintedB == iB + (IF pcB = "signal" THEN 1 ELSE 0)

\* C19: rendezvous lockstep.  threadA has started iteration i + 1 only if
\* threadB has finished iteration i (iB counts the iterations threadB has
\* finished, each with psem_signal(semB)), and symmetrically; so the
\* numbers of lines the two threads have printed differ by at most 1.
C19_Lockstep ==
  /\ StartedA <= iB + 1
  /\ StartedB <= iA + 1
  /\ semB = SemBInit + iB - StartedA
  /\ semA = SemAInit + iA - StartedB
  /\ PrintedA - PrintedB \in {-1, 0, 1}

\* threadA has printed A0..A5 and is blocked in psem_wait(semB) of its
\* seventh iteration, while threadB is in its sixth and has not yet printed B5.
C19_Witness ==
  /\ pcA = "wait"
  /\ iA = 6
  /\ ~PsemCanWait(semB)
  /\ pcB = "print"
  /\ iB = 5
  /\ PrintedA = PrintedB + 1

\* threadA and threadB are both blocked in psem_wait.
BothBlocked ==
  /\ pcA = "wait" /\ ~PsemCanWait(semB)
  /\ pcB = "wait" /\ ~PsemCanWait(semA)

\* C20: rendezvous terminates.  Under fair scheduling both threads complete
\* LOOPS iterations and exit and main gets past its two pthread_join calls
\* to the end; the two threads are never both blocked in psem_wait; and
\* when main calls psem_destroy both threads have exited after LOOPS
\* iterations, so none waits on a semaphore, and semA and semB have count 1.
C20_RendezvousTerminates ==
  /\ <>(pcA = "exit" /\ pcB = "exit" /\ iA = LOOPS /\ iB = LOOPS)
  /\ <>(pcMain = "return")
  /\ [](~BothBlocked)
  /\ [](pcMain \in {"destroy", "return"} =>
          /\ pcA = "exit" /\ pcB = "exit"
          /\ iA = LOOPS /\ iB = LOOPS
          /\ semA = 1 /\ semB = 1)

\* main is about to call psem_destroy: both threads have exited and both
\* semaphores have count 1.
C20_Witness ==
  /\ pcMain = "destroy"
  /\ pcA = "exit" /\ pcB = "exit"
  /\ iA = LOOPS /\ iB = LOOPS
  /\ semA = 1 /\ semB = 1

(***************************************************************************)
(* Properties of mutex.c.                                                  *)
(***************************************************************************)

\* The iterations whose update of counter the thread has stored.
Applied(t) == ci[t] + (IF cpc[t] = "unlock" THEN 1 ELSE 0)

\* The threads between lock and unlock.
InCritical == {t \in CntThreads : cpc[t] \in {"load", "store", "unlock"}}

\* The sum of all updates stored so far by the threads of T.
RECURSIVE StoredBy(_)
StoredBy(T) ==
  IF T = {} THEN 0
  ELSE LET t == CHOOSE u \in T : TRUE
       IN  Delta(t) * Applied(t) + StoredBy(T \ {t})

\* All threads of the test case have been joined.
AllJoined == joined = test.incThreads + test.decThreads

\* C21: the synchronised counter tests end at 0.  For the test cases
\* Pthread mutex, Spinlock and Atomic add/sub no update of counter is lost
\* under any interleaving: counter is always the sum of the updates stored
\* so far; for the mutex and the spinlock at most one thread is between
\* lock and unlock; and counter is 0 once all threads have been joined, as
\* is the value run_test records.  With the constants of the program the
\* increments and the decrements add up to the same total.
C21_SyncEndsAtZero ==
  /\ INC_THREADS * INC_ITERATIONS * INCREMENT
       = DEC_THREADS * DEC_ITERATIONS * DECREMENT
  /\ test.name \in SyncTests
  /\ test.name \in {"Pthread mutex", "Spinlock"} => Cardinality(InCritical) <= 1
  /\ counter = StoredBy({t \in CntThreads : IsInc(t) \/ IsDec(t)})
  /\ AllJoined => counter = 0
  /\ cmain = "done" => (AllJoined /\ tcounter = 0)

\* The spinlock test has ended: two incrementing threads of two iterations
\* each and one decrementing thread of four have been joined, and run_test
\* has recorded 0.
C21_Witness ==
  /\ test.name = "Spinlock"
  /\ test.incThreads = 2
  /\ test.incIter = 2
  /\ test.decIter = 4
  /\ ci = <<2, 2, 4>>
  /\ cmain = "done"
  /\ tcounter = 0

\* C22: the unsynchronised counter test.  For the test case No
\* synchronization too, the value of counter once all threads have been
\* joined, which run_test records, is 0.
C22_NoSyncEndsAtZero ==
  /\ AllJoined => counter = 0
  /\ cmain = "done" => tcounter = 0

====
